---- MODULE Spec2Model ----
(***************************************************************************)
(* Model of the Dashboard component (src/src/components/Dashboard.tsx):    *)
(* the load lifecycle, the filter pipeline (filteredData) and the graph    *)
(* derivation of createNetworkGraph.                                       *)
(*                                                                         *)
(* A JavaScript string is a sequence of one-character strings, so that     *)
(* toLowerCase, includes, split, trim and parseInt are computed and not    *)
(* assumed.  A row is a function from column name to string.               *)
(***************************************************************************)
EXTENDS Integers, Sequences, FiniteSets, TLC

\* Largest number of rows of a parsed CSV.
MaxRows == 2

\* Resize listeners and simulations are counted up to this number; a larger
\* count is recorded as this number.
MaxCounted == 2

----------------------------------------------------------------------------
\* String primitives

WhiteSpace == {" "}

DecimalDigits == {"0", "1", "2", "3", "4", "5", "6", "7", "8", "9"}

HexLetters == {"a", "b", "c", "d", "e", "f", "A", "B", "C", "D", "E", "F"}

LowerOf(ch) ==
  CASE ch = "A" -> "a"
    [] ch = "B" -> "b"
    [] ch = "C" -> "c"
    [] ch = "D" -> "d"
    [] ch = "E" -> "e"
    [] ch = "F" -> "f"
    [] ch = "P" -> "p"
    [] ch = "Q" -> "q"
    [] OTHER -> ch

\* String.prototype.toLowerCase
toLowerCase(s) == [i \in 1..Len(s) |-> LowerOf(s[i])]

\* String.prototype.includes: some window of hay equals needle.
includes(hay, needle) ==
  \E i \in 0..(Len(hay) - Len(needle)) :
     SubSeq(hay, i + 1, i + Len(needle)) = needle

RECURSIVE trimStart(_)
trimStart(s) ==
  IF s # <<>> /\ Head(s) \in WhiteSpace THEN trimStart(Tail(s)) ELSE s

RECURSIVE trimEnd(_)
trimEnd(s) ==
  IF s # <<>> /\ s[Len(s)] \in WhiteSpace
    THEN trimEnd(SubSeq(s, 1, Len(s) - 1))
    ELSE s

\* String.prototype.trim
trim(s) == trimEnd(trimStart(s))

\* String.prototype.split(','): the list of the comma-separated pieces.
RECURSIVE split(_)
split(s) ==
  IF \A i \in 1..Len(s) : s[i] # ","
    THEN <<s>>
    ELSE LET k == CHOOSE i \in 1..Len(s) :
                     s[i] = "," /\ \A j \in 1..(i - 1) : s[j] # ","
         IN  <<SubSeq(s, 1, k - 1)>> \o split(SubSeq(s, k + 1, Len(s)))

DigitVal(ch) ==
  CASE ch = "0" -> 0 [] ch = "1" -> 1 [] ch = "2" -> 2 [] ch = "3" -> 3
    [] ch = "4" -> 4 [] ch = "5" -> 5 [] ch = "6" -> 6 [] ch = "7" -> 7
    [] ch = "8" -> 8 [] ch = "9" -> 9
    [] ch \in {"a", "A"} -> 10 [] ch \in {"b", "B"} -> 11
    [] ch \in {"c", "C"} -> 12 [] ch \in {"d", "D"} -> 13
    [] ch \in {"e", "E"} -> 14 [] ch \in {"f", "F"} -> 15

RadixDigits(R) == IF R = 16 THEN DecimalDigits \cup HexLetters ELSE DecimalDigits

\* The longest prefix of s made of radix-R digits.
RECURSIVE DigitPrefix(_, _)
DigitPrefix(s, R) ==
  IF s # <<>> /\ Head(s) \in RadixDigits(R)
    THEN <<Head(s)>> \o DigitPrefix(Tail(s), R)
    ELSE <<>>

RECURSIVE DigitsValue(_, _)
DigitsValue(z, R) ==
  IF z = <<>> THEN 0
  ELSE DigitsValue(SubSeq(z, 1, Len(z) - 1), R) * R + DigitVal(z[Len(z)])

NaN == [nan |-> TRUE, val |-> 0]

\* The global parseInt(string) with no radix argument: leading white space is
\* skipped, a sign is read, a 0x/0X prefix selects radix 16, and the longest
\* digit prefix is converted; the rest of the string is ignored.
parseInt(str) ==
  LET s1     == trimStart(str)
      signed == s1 # <<>> /\ Head(s1) \in {"+", "-"}
      sign   == IF s1 # <<>> /\ Head(s1) = "-" THEN -1 ELSE 1
      s2     == IF signed THEN Tail(s1) ELSE s1
      hex    == Len(s2) >= 2 /\ s2[1] = "0" /\ s2[2] \in {"x", "X"}
      R      == IF hex THEN 16 ELSE 10
      s3     == IF hex THEN SubSeq(s2, 3, Len(s2)) ELSE s2
      Z      == DigitPrefix(s3, R)
  IN  IF Z = <<>> THEN NaN ELSE [nan |-> FALSE, val |-> sign * DigitsValue(Z, R)]

isNaN(n) == n.nan

----------------------------------------------------------------------------
\* Rows

Columns ==
  {"Company", "Main Sport Focus", "Year Founded", "Ownership Status",
   "Headquarters", "Acquisition History"}

CompanyData(company, focus, year, ownership, hq, history) ==
  [c \in Columns |->
     CASE c = "Company" -> company
       [] c = "Main Sport Focus" -> focus
       [] c = "Year Founded" -> year
       [] c = "Ownership Status" -> ownership
       [] c = "Headquarters" -> hq
       [] c = "Acquisition History" -> history]

\* The rows a parsed CSV is made of.
RowPool ==
  { CompanyData(<<"A", "b">>, <<"s", ",", " ", "t">>, <<"3">>, <<"P">>,
                <<"u">>, <<>>),
    CompanyData(<<"b">>, <<" ", "s", " ">>, <<"5">>, <<"P">>,
                <<"A">>, <<"A", "b">>),
    CompanyData(<<"A", "b">>, <<"t">>, <<"4", "x">>, <<>>,
                <<"u">>, <<"b", " ", "A", "b">>),
    CompanyData(<<"C">>, <<>>, <<>>, <<"Q">>,
                <<>>, <<"a", "b">>),
    CompanyData(<<"D">>, <<",", "s">>, <<" ", "2">>, <<"P">>,
                <<"b">>, <<"C">>),
    CompanyData(<<"c">>, <<"t", ",", "s">>, <<"x", "5">>, <<"Q">>,
                <<"a", "b">>, <<>>) }

RECURSIVE SeqsUpTo(_, _)
SeqsUpTo(S, n) ==
  IF n = 0 THEN {<<>>}
  ELSE LET shorter == SeqsUpTo(S, n - 1)
       IN  shorter \cup {Append(q, x) : q \in {r \in shorter : Len(r) = n - 1}, x \in S}

\* The results d3.csvParse can give.
ParsedData == SeqsUpTo(RowPool, MaxRows)

\* The texts typed into the search field.
SearchTerms ==
  {<<>>, <<"a">>, <<"A", "B">>, <<"s">>, <<"z">>}

\* The columns whose Select is operated (every column but Year Founded has one).
SelectColumns == {"Ownership Status"}

----------------------------------------------------------------------------
\* Filter engine

YearColumn == "Year Founded"

\* A filter value is a string (from a Select) or a number pair (from the Slider).
StringValue(s) == [kind |-> "string", value |-> s]

ArrayValue(a, b) == [kind |-> "array", min |-> a, max |-> b]

Array_isArray(v) == v.kind = "array"

\* JavaScript truthiness of a filter value: only the empty string is falsy.
Truthy(v) == Array_isArray(v) \/ v.value # <<>>

\* searchRejects that does not look at Headquarters.
searchRejectsNoHeadquarters(company, term) ==
  /\ term # <<>>
  /\ LET searchLower  == toLowerCase(term)
         companyName  == toLowerCase(company["Company"])
         mainFocus    == toLowerCase(company["Main Sport Focus"])
     IN  /\ ~includes(companyName, searchLower)
         /\ ~includes(mainFocus, searchLower)

\* The search part of the filter callback: TRUE when the row is rejected.
searchRejects(company, term) ==
  /\ term # <<>>
  /\ LET searchLower  == toLowerCase(term)
         companyName  == toLowerCase(company["Company"])
         mainFocus    == toLowerCase(company["Main Sport Focus"])
         headquarters == toLowerCase(company["Headquarters"])
     IN  /\ ~includes(companyName, searchLower)
         /\ ~includes(mainFocus, searchLower)
         /\ ~includes(headquarters, searchLower)

\* yearInRange with the lower bound excluded.
yearInRangeStrict(company, value) ==
  LET year == parseInt(company[YearColumn])
  IN  ~isNaN(year) /\ year.val > value.min /\ year.val <= value.max

\* The range test of the Year Founded entry.
yearInRange(company, value) ==
  LET year == parseInt(company[YearColumn])
  IN  ~isNaN(year) /\ year.val >= value.min /\ year.val <= value.max

\* entryPasses without the early return on a falsy value.
entryPassesNoEmptyCheck(company, column, value) ==
  IF column = YearColumn /\ Array_isArray(value)
    THEN yearInRange(company, value)
    ELSE ~Array_isArray(value) /\ company[column] = value.value

\* The callback given to Object.entries(filters).every.
entryPasses(company, column, value) ==
  IF ~Truthy(value) THEN TRUE
  ELSE IF column = YearColumn /\ Array_isArray(value)
    THEN yearInRange(company, value)
    ELSE ~Array_isArray(value) /\ company[column] = value.value

\* keepCompany with some in place of every.
keepCompanySome(company, term, f) ==
  IF searchRejects(company, term) THEN FALSE
  ELSE \E column \in DOMAIN f : entryPasses(company, column, f[column])

\* The callback given to data.filter.
keepCompany(company, term, f) ==
  IF searchRejects(company, term) THEN FALSE
  ELSE \A column \in DOMAIN f : entryPasses(company, column, f[column])

RECURSIVE filterRows(_, _, _)
filterRows(rows, term, f) ==
  IF rows = <<>> THEN <<>>
  ELSE (IF keepCompany(Head(rows), term, f) THEN <<Head(rows)>> ELSE <<>>)
         \o filterRows(Tail(rows), term, f)

\* filteredData computed from the second row on.
filteredDataSkipFirst(rows, term, f) ==
  IF rows = <<>> THEN <<>> ELSE filterRows(Tail(rows), term, f)

\* const filteredData = data.filter(...)
filteredDataOf(rows, term, f) == filterRows(rows, term, f)

\* The years of getYearRange: the parsed Year Founded values that are numbers.
YearsOf(rows) ==
  {parseInt(rows[i][YearColumn]).val :
     i \in {j \in 1..Len(rows) : ~isNaN(parseInt(rows[j][YearColumn]))}}

SetMin(S) == CHOOSE x \in S : \A y \in S : x <= y

SetMax(S) == CHOOSE x \in S : \A y \in S : x >= y

\* getYearRange, for a row set with at least one parsed year.
getYearRange(rows) == ArrayValue(SetMin(YearsOf(rows)), SetMax(YearsOf(rows)))

getUniqueValues(rows, column) == {rows[i][column] : i \in 1..Len(rows)}

\* setFilters(prev => ({...prev, [column]: value}))
handleFilterChange(prev, column, value) ==
  [c \in (DOMAIN prev) \cup {column} |-> IF c = column THEN value ELSE prev[c]]

----------------------------------------------------------------------------
\* Graph derivation

\* createNodes without the trim of the group.
createNodesNoTrim(fd) ==
  [i \in 1..Len(fd) |->
     [id    |-> fd[i]["Company"],
      group |-> split(fd[i]["Main Sport Focus"])[1],
      index |-> i - 1]]

\* nodes = filteredData.map(...); index is the position the simulation gives.
createNodes(fd) ==
  [i \in 1..Len(fd) |->
     [id    |-> fd[i]["Company"],
      group |-> trim(split(fd[i]["Main Sport Focus"])[1]),
      index |-> i - 1]]

\* new Map(nodes.map(node => [node.id, node])).get(id): the last node of an id.
nodeMapGet(ns, id) ==
  ns[CHOOSE i \in 1..Len(ns) :
       ns[i].id = id /\ \A j \in (i + 1)..Len(ns) : ns[j].id # id]

\* linkTest without the comparison of the two names.
linkTestNoNameCheck(company, otherCompany) ==
  includes(company["Acquisition History"], otherCompany["Company"])

\* The test of the inner loop: company is the outer row, otherCompany the inner.
linkTest(company, otherCompany) ==
  /\ includes(company["Acquisition History"], otherCompany["Company"])
  /\ company["Company"] # otherCompany["Company"]

\* makeLink with source and target exchanged.
makeLinkSwapped(ns, company, otherCompany) ==
  [source |-> nodeMapGet(ns, otherCompany["Company"]),
   target |-> nodeMapGet(ns, company["Company"])]

\* The link pushed for the pair (company, otherCompany).
makeLink(ns, company, otherCompany) ==
  [source |-> nodeMapGet(ns, company["Company"]),
   target |-> nodeMapGet(ns, otherCompany["Company"])]

\* The two nested forEach loops, pair k of Len(fd) * Len(fd) onwards.
RECURSIVE linksFrom(_, _, _)
linksFrom(fd, ns, k) ==
  IF k > Len(fd) * Len(fd) THEN <<>>
  ELSE LET company      == fd[((k - 1) \div Len(fd)) + 1]
           otherCompany == fd[((k - 1) % Len(fd)) + 1]
       IN  (IF linkTest(company, otherCompany)
              THEN <<makeLink(ns, company, otherCompany)>>
              ELSE <<>>)
             \o linksFrom(fd, ns, k + 1)

createLinks(fd, ns) == linksFrom(fd, ns, 1)

----------------------------------------------------------------------------
\* Drawing

\* container.clientWidth and container.clientHeight.
Width == 800

Height == 400

\* The position d3.forceSimulation(nodes) gives node i when it is constructed
\* (a spiral around the origin, rounded); no tick has run when
\* createNetworkGraph reads node.x and node.y.
initialX(i) ==
  CASE i = 0 -> 7 [] i = 1 -> -9 [] i = 2 -> 1 [] i = 3 -> 11 [] OTHER -> 0

initialY(i) ==
  CASE i = 0 -> 0 [] i = 1 -> 8 [] i = 2 -> -16 [] i = 3 -> 15 [] OTHER -> 0

\* isHighlighted without the lower-casing.
isHighlightedCaseSensitive(term, d) ==
  term # <<>> /\ includes(d.id, term)

\* searchTerm && d.id.toLowerCase().includes(searchTerm.toLowerCase())
isHighlighted(term, d) ==
  term # <<>> /\ includes(toLowerCase(d.id), toLowerCase(term))

HighlightColor == "#C75C2C"

\* .range(['#C75C2C', '#2A5B5B', '#F4B942'])
ColorRange == <<"#C75C2C", "#2A5B5B", "#F4B942">>

\* [...new Set(nodes.map(n => n.group))]: the groups in order of first use.
RECURSIVE groupDomain(_)
groupDomain(ns) ==
  IF ns = <<>> THEN <<>>
  ELSE LET front == groupDomain(SubSeq(ns, 1, Len(ns) - 1))
           g     == ns[Len(ns)].group
       IN  IF \E i \in 1..Len(front) : front[i] = g THEN front ELSE Append(front, g)

\* d3.scaleOrdinal: the colour of the group's place in the domain, the range
\* being used again from its start when the domain is longer.
colorScale(ns, g) ==
  LET dom == groupDomain(ns)
      at  == CHOOSE i \in 1..Len(dom) : dom[i] = g
  IN  ColorRange[((at - 1) % Len(ColorRange)) + 1]

\* The circles: r in tenths of nodeRadius, and the fill.
createCircles(ns, term) ==
  [i \in 1..Len(ns) |->
     [r    |-> IF isHighlighted(term, ns[i]) THEN 16 ELSE 10,
      fill |-> IF isHighlighted(term, ns[i])
                 THEN HighlightColor ELSE colorScale(ns, ns[i].group)]]

\* The labels: font-size in hundredths of fontSize, and font-weight.
createLabels(ns, term) ==
  [i \in 1..Len(ns) |->
     [text       |-> ns[i].id,
      fontSize   |-> IF isHighlighted(term, ns[i]) THEN 125 ELSE 100,
      fontWeight |-> IF isHighlighted(term, ns[i]) THEN "bold" ELSE "normal"]]

\* nodes.filter(node => node.id.toLowerCase().includes(searchTerm.toLowerCase()))
highlightedNodes(ns, term) ==
  {i \in 1..Len(ns) : includes(toLowerCase(ns[i].id), toLowerCase(term))}

\* highlightedNodes.reduce((sum, node) => sum + (node.x ?? 0), 0)
RECURSIVE sumX(_, _)
sumX(S, ns) ==
  IF S = {} THEN 0
  ELSE LET i == CHOOSE j \in S : TRUE
       IN  initialX(ns[i].index) + sumX(S \ {i}, ns)

\* highlightedNodes.reduce((sum, node) => sum + (node.y ?? 0), 0)
RECURSIVE sumY(_, _)
sumY(S, ns) ==
  IF S = {} THEN 0
  ELSE LET i == CHOOSE j \in S : TRUE
       IN  initialY(ns[i].index) + sumY(S \ {i}, ns)

\* highlightedNodes.length > 1 ? 1.5 : 2, in tenths.
focusScale(n) == IF n > 1 THEN 15 ELSE 20

\* A zoom transform k, x, y maps a point p to k * p + (x, y).  k is kept in
\* tenths, and x and y are kept multiplied by count, the number of nodes the
\* centre was averaged over, so that the division stays exact.
ZoomIdentity == [scaleTenths |-> 10, count |-> 1, xTimesCount |-> 0, yTimesCount |-> 0]

\* d3.zoomIdentity.translate(width / 2 - centerX, height / 2 - centerY).scale(k)
focusTransform(ns, H) ==
  [scaleTenths |-> focusScale(Cardinality(H)),
   count       |-> Cardinality(H),
   xTimesCount |-> Cardinality(H) * (Width \div 2) - sumX(H, ns),
   yTimesCount |-> Cardinality(H) * (Height \div 2) - sumY(H, ns)]

\* The transform the new svg ends with: the identity unless the search term
\* highlights a node.
autoFocus(ns, term) ==
  IF term # <<>> /\ highlightedNodes(ns, term) # {}
    THEN focusTransform(ns, highlightedNodes(ns, term))
    ELSE ZoomIdentity

\* One more, counted up to MaxCounted.
CountUp(n) == IF n < MaxCounted THEN n + 1 ELSE n

----------------------------------------------------------------------------
\* The component

VARIABLES
  fetch,         \* "idle", "pending" or "settled": the axios request
  data,          \* useState: the parsed rows
  loading,       \* useState
  error,         \* useState: Null or the message
  searchTerm,    \* useState
  filters,       \* useState: column -> filter value
  logged,        \* what console.error was given
  view,          \* what the last render returned
  filteredData,  \* the filteredData of the last render
  graphInvoked,  \* createNetworkGraph has been called
  graphBuilt,    \* an svg is in the #network-graph container
  nodes,         \* the nodes of the drawn graph
  links,         \* the links of the drawn graph
  circles,       \* the circle of each drawn node
  labels,        \* the text of each drawn node
  zoomTransform, \* the zoom transform of the svg
  requests,      \* how many times axios.get was called
  resizeHandlers,\* how many resize listeners the window has
  simulations    \* how many simulations were started and not stopped

vars ==
  <<fetch, data, loading, error, searchTerm, filters, logged, view,
    filteredData, graphInvoked, graphBuilt, nodes, links, circles, labels,
    zoomTransform, requests, resizeHandlers, simulations>>

\* What createNetworkGraph writes.
graphVars ==
  <<graphInvoked, graphBuilt, nodes, links, circles, labels, zoomTransform,
    resizeHandlers, simulations>>

Null == "null"

FailureMessage == <<"Failed to load data">>

NoFilters == [c \in {} |-> StringValue(<<>>)]

\* if (error): null and the empty string are falsy.
ErrorTruthy(e) == e # Null /\ e # <<>>

\* The branch of the component's return that is taken.  With no row,
\* Object.keys(data[0]) throws and the render fails.
Render(l, e, d) ==
  IF l THEN "loading"
  ELSE IF ErrorTruthy(e) THEN "error"
  ELSE IF d = <<>> THEN "crashed"
  ELSE "main"

\* The effect without its guard on the number of rows.
shouldCreateGraphAlways(d) == TRUE

\* if (data.length > 0)
shouldCreateGraph(d) == Len(d) > 0

\* createNetworkGraph that draws into the container without emptying it.
createNetworkGraphNoClear(v, fd, term) ==
  /\ graphInvoked' = TRUE
  /\ IF v = "main"
       THEN /\ graphBuilt' = TRUE
            /\ nodes' = nodes \o createNodes(fd)
            /\ links' = links \o createLinks(fd, createNodes(fd))
            /\ circles' = circles \o createCircles(createNodes(fd), term)
            /\ labels' = labels \o createLabels(createNodes(fd), term)
            /\ zoomTransform' = autoFocus(createNodes(fd), term)
            /\ simulations' = CountUp(simulations)
            /\ resizeHandlers' = CountUp(resizeHandlers)
       ELSE UNCHANGED <<graphBuilt, nodes, links, circles, labels, zoomTransform,
                        simulations, resizeHandlers>>

\* createNetworkGraph: the old svg is removed and, when the container is
\* rendered, a new one is drawn, a simulation is started and a resize listener
\* is added.  The function returns a cleanup that removes the listener and
\* stops the simulation.
createNetworkGraph(v, fd, term) ==
  /\ graphInvoked' = TRUE
  /\ IF v = "main"
       THEN /\ graphBuilt' = TRUE
            /\ nodes' = createNodes(fd)
            /\ links' = createLinks(fd, createNodes(fd))
            /\ circles' = createCircles(createNodes(fd), term)
            /\ labels' = createLabels(createNodes(fd), term)
            /\ zoomTransform' = autoFocus(createNodes(fd), term)
            /\ simulations' = CountUp(simulations)
            /\ resizeHandlers' = CountUp(resizeHandlers)
       ELSE UNCHANGED <<graphBuilt, nodes, links, circles, labels, zoomTransform,
                        simulations, resizeHandlers>>

\* useEffect(..., [data, searchTerm, filters]) after a render that committed.
\* The effect callback calls createNetworkGraph() and returns nothing, so the
\* cleanup createNetworkGraph returned is never run.
graphEffect(d, v, fd, term) ==
  IF v # "crashed" /\ shouldCreateGraph(d)
    THEN createNetworkGraph(v, fd, term)
    ELSE UNCHANGED graphVars

Init ==
  /\ fetch = "idle"
  /\ data = <<>>
  /\ loading = TRUE
  /\ error = Null
  /\ searchTerm = <<>>
  /\ filters = NoFilters
  /\ logged = "none"
  /\ view = "unmounted"
  /\ filteredData = <<>>
  /\ graphInvoked = FALSE
  /\ graphBuilt = FALSE
  /\ nodes = <<>>
  /\ links = <<>>
  /\ circles = <<>>
  /\ labels = <<>>
  /\ zoomTransform = ZoomIdentity
  /\ requests = 0
  /\ resizeHandlers = 0
  /\ simulations = 0

\* The first render and its effects: fetchData() is started.
Mount ==
  /\ fetch = "idle"
  /\ fetch' = "pending"
  /\ requests' = requests + 1
  /\ view' = Render(loading, error, data)
  /\ filteredData' = filteredDataOf(data, searchTerm, filters)
  /\ graphEffect(data, view', filteredData', searchTerm)
  /\ UNCHANGED <<data, loading, error, searchTerm, filters, logged>>

\* axios.get and d3.csvParse succeed: setData, then setLoading(false) in the
\* finally block; both updates are rendered together.
FetchResolve ==
  /\ fetch = "pending"
  /\ \E parsedData \in ParsedData :
       /\ data' = parsedData
       /\ loading' = FALSE
       /\ fetch' = "settled"
       /\ view' = Render(FALSE, error, parsedData)
       /\ filteredData' = filteredDataOf(parsedData, searchTerm, filters)
       /\ graphEffect(parsedData, view', filteredData', searchTerm)
  /\ UNCHANGED <<error, searchTerm, filters, logged, requests>>

\* The catch block followed by the finally block.
catchError(cause) ==
  /\ error' = FailureMessage
  /\ logged' = cause
  /\ loading' = FALSE
  /\ fetch' = "settled"
  /\ view' = Render(FALSE, error', data)
  /\ filteredData' = filteredDataOf(data, searchTerm, filters)
  /\ UNCHANGED <<data, searchTerm, filters, requests>>
  /\ UNCHANGED graphVars

\* axios.get rejects.
FetchReject ==
  /\ fetch = "pending"
  /\ catchError("network")

\* d3.csvParse throws on the response.
ParseThrow ==
  /\ fetch = "pending"
  /\ catchError("parse")

\* A render after a state change of the main view, and the graph effect.
rerender(term, f) ==
  /\ view' = Render(loading, error, data)
  /\ filteredData' = filteredDataOf(data, term, f)
  /\ graphEffect(data, view', filteredData', term)
  /\ UNCHANGED <<fetch, data, loading, error, logged, requests>>

\* onChange of the search TextField.
handleSearch ==
  /\ view = "main"
  /\ \E term \in SearchTerms :
       /\ term # searchTerm
       /\ searchTerm' = term
       /\ filters' = filters
       /\ rerender(term, filters)

\* value={filters[column] || ''} of a Select.
selectValue(f, column) ==
  IF column \in DOMAIN f /\ Truthy(f[column]) THEN f[column].value ELSE <<>>

\* onChange of a Select: 'All' (the empty string) or a value of the column.
SelectChange ==
  /\ view = "main"
  /\ \E column \in SelectColumns :
       \E value \in {<<>>} \cup getUniqueValues(data, column) :
          /\ value # selectValue(filters, column)
          /\ filters' = handleFilterChange(filters, column, StringValue(value))
          /\ searchTerm' = searchTerm
          /\ rerender(searchTerm, filters')

\* value={filters[column] || getYearRange()} of the Slider.
sliderValue(f, rows) ==
  IF YearColumn \in DOMAIN f THEN f[YearColumn] ELSE getYearRange(rows)

\* onChange of the Year Founded Slider: a pair within [min, max] of the data.
SliderChange ==
  /\ view = "main"
  /\ YearsOf(data) # {}
  /\ LET range == getYearRange(data)
     IN  \E a \in range.min..range.max :
           \E b \in a..range.max :
              /\ ArrayValue(a, b) # sliderValue(filters, data)
              /\ filters' = handleFilterChange(filters, YearColumn, ArrayValue(a, b))
              /\ searchTerm' = searchTerm
              /\ rerender(searchTerm, filters')

Next ==
  \/ Mount
  \/ FetchResolve
  \/ FetchReject
  \/ ParseThrow
  \/ handleSearch
  \/ SelectChange
  \/ SliderChange

Spec == Init /\ [][Next]_vars

----------------------------------------------------------------------------
\* Properties of the link derivation

\* The node that carries a Company name in the drawn graph: the last one.
NodeOfName(name) ==
  CHOOSE n \in {nodes[i] : i \in 1..Len(nodes)} :
     n.id = name /\ \A i \in 1..Len(nodes) : nodes[i].id = name => nodes[i].index <= n.index

\* The ordered pairs <<p, q>> of filtered rows of different names where the
\* history of row p contains the name of row q.
MentionPairs ==
  {pq \in (1..Len(filteredData)) \X (1..Len(filteredData)) :
     /\ filteredData[pq[1]]["Company"] # filteredData[pq[2]]["Company"]
     /\ includes(filteredData[pq[1]]["Acquisition History"],
                 filteredData[pq[2]]["Company"])}

\* No two rows carry the same Company name.
UniqueNames(rows) ==
  \A i, j \in 1..Len(rows) : rows[i]["Company"] = rows[j]["Company"] => i = j

HasLink(src, tgt) ==
  \E k \in 1..Len(links) : links[k].source = src /\ links[k].target = tgt

\* C1, as stated (on rows of unique names): for rows A, B, the drawn links contain a
\* link with source = A's node and target = B's node exactly when B's
\* Acquisition History contains A's Company name.
C1_SourceIsMentionedRow ==
  graphBuilt /\ UniqueNames(filteredData) =>
    \A i, j \in 1..Len(filteredData) :
       filteredData[i]["Company"] # filteredData[j]["Company"] =>
         (HasLink(nodes[i], nodes[j])
            <=> includes(filteredData[j]["Acquisition History"],
                         filteredData[i]["Company"]))

\* C1, amended: for two different Company names a and b of the filtered rows,
\* the drawn links contain a link with source = the node of b and target = the
\* node of a exactly when a row named b has an Acquisition History containing
\* a (case-sensitive); and there is one link per ordered pair of rows passing
\* that test, so mutual references give one link per direction, none merged.
C1_SourceIsMentioningRow ==
  graphBuilt =>
    /\ \A i, j \in 1..Len(filteredData) :
          filteredData[i]["Company"] # filteredData[j]["Company"] =>
            (HasLink(NodeOfName(filteredData[j]["Company"]),
                     NodeOfName(filteredData[i]["Company"]))
               <=> \E p \in 1..Len(filteredData) :
                      /\ filteredData[p]["Company"] = filteredData[j]["Company"]
                      /\ includes(filteredData[p]["Acquisition History"],
                                  filteredData[i]["Company"]))
    /\ Len(links) = Cardinality(MentionPairs)

\* Two filtered rows mention each other and both links are drawn.
C1_Witness ==
  /\ graphBuilt
  /\ \E i, j \in 1..Len(filteredData) :
        /\ <<i, j>> \in MentionPairs
        /\ <<j, i>> \in MentionPairs
        /\ HasLink(nodes[i], nodes[j])
        /\ HasLink(nodes[j], nodes[i])

\* C2: no drawn link has the same node as source and target, also when a
\* filtered row's Acquisition History mentions its own Company name.
C2_NoSelfLinks ==
  graphBuilt =>
    \A k \in 1..Len(links) :
       /\ links[k].source # links[k].target
       /\ links[k].source.index # links[k].target.index

\* A filtered row mentions its own name, and links are drawn.
C2_Witness ==
  /\ graphBuilt
  /\ Len(links) > 0
  /\ \E i \in 1..Len(filteredData) :
        /\ includes(filteredData[i]["Acquisition History"],
                    filteredData[i]["Company"])

----------------------------------------------------------------------------
\* Properties of the filter engine

InSeq(x, q) == \E i \in 1..Len(q) : q[i] = x

\* The filter state without its entry for a column.
WithoutColumn(f, column) == [c \in (DOMAIN f) \ {column} |-> f[c]]

\* C3: with an empty search term and an empty filter state the filtered rows
\* are the loaded rows, in the same order.
C3_EmptyFilterIsIdentity ==
  /\ filteredDataOf(data, <<>>, NoFilters) = data
  /\ (view # "unmounted" /\ searchTerm = <<>> /\ DOMAIN filters = {}
        => filteredData = data)

\* Rows are shown with nothing typed and nothing selected, one of them with
\* an unparsable year.
C3_Witness ==
  /\ view = "main"
  /\ searchTerm = <<>>
  /\ DOMAIN filters = {}
  /\ Len(filteredData) = MaxRows
  /\ \E i \in 1..Len(data) : isNaN(parseInt(data[i][YearColumn]))

\* C4: filtering the filtered rows again with the same search term and filter
\* state changes nothing.
C4_FilterIdempotent ==
  filteredDataOf(filteredDataOf(data, searchTerm, filters), searchTerm, filters)
    = filteredDataOf(data, searchTerm, filters)

\* A search term and a filter are active, some rows are kept and some dropped.
C4_Witness ==
  /\ view = "main"
  /\ searchTerm # <<>>
  /\ DOMAIN filters # {}
  /\ filteredData # <<>>
  /\ Len(filteredData) < Len(data)
  /\ filteredDataOf(filteredData, searchTerm, filters) = filteredData

\* C5: with a Year Founded range [min, max], a row whose parsed year is min
\* or max is kept (when the search term and the other entries keep it), and
\* a row whose parsed year is below min or above max is dropped.
C5_YearRangeInclusive ==
  view = "main" /\ YearColumn \in DOMAIN filters =>
    LET value    == filters[YearColumn]
        others   == filteredDataOf(data, searchTerm, WithoutColumn(filters, YearColumn))
    IN  \A i \in 1..Len(data) :
          LET year == parseInt(data[i][YearColumn])
          IN  ~isNaN(year) =>
                /\ (year.val \in {value.min, value.max} /\ InSeq(data[i], others)
                      => InSeq(data[i], filteredData))
                /\ (year.val < value.min \/ year.val > value.max
                      => ~InSeq(data[i], filteredData))

\* A range min < max keeps a row whose year is min and drops one above max.
C5_Witness ==
  /\ view = "main"
  /\ YearColumn \in DOMAIN filters
  /\ filters[YearColumn].min < filters[YearColumn].max
  /\ \E i, j \in 1..Len(data) :
        /\ ~isNaN(parseInt(data[i][YearColumn]))
        /\ parseInt(data[i][YearColumn]).val = filters[YearColumn].min
        /\ InSeq(data[i], filteredData)
        /\ ~isNaN(parseInt(data[j][YearColumn]))
        /\ parseInt(data[j][YearColumn]).val > filters[YearColumn].max
        /\ ~InSeq(data[j], filteredData)

\* A string that is an integer and nothing else: an optional sign and digits,
\* with white space around them at most.
IsPlainInteger(s) ==
  LET t == trim(s)
      u == IF t # <<>> /\ Head(t) \in {"+", "-"} THEN Tail(t) ELSE t
  IN  u # <<>> /\ \A i \in 1..Len(u) : u[i] \in DecimalDigits

\* C6: while a Year Founded filter is active, no kept row has a Year Founded
\* that is not a plain integer (empty, non-digit text, or digits followed by
\* other characters), whatever the range and the other fields.
C6_NonNumericYearExcluded ==
  view = "main" /\ YearColumn \in DOMAIN filters =>
    \A i \in 1..Len(filteredData) : IsPlainInteger(filteredData[i][YearColumn])

\* The columns the search term is looked up in.
SearchedColumns == {"Company", "Main Sport Focus", "Headquarters"}

SearchStage(row, term) ==
  \/ term = <<>>
  \/ \E c \in SearchedColumns : includes(toLowerCase(row[c]), toLowerCase(term))

YearStage(row, value) ==
  /\ ~isNaN(parseInt(row[YearColumn]))
  /\ parseInt(row[YearColumn]).val \in value.min..value.max

\* Every entry of the filter state is a constraint.
FilterStageAllEntries(row, f) ==
  \A c \in DOMAIN f :
     IF c = YearColumn THEN YearStage(row, f[c]) ELSE row[c] = f[c].value

\* The entries whose value is the empty string are no constraint.
FilterStageNonEmptyEntries(row, f) ==
  \A c \in DOMAIN f :
     IF c = YearColumn THEN YearStage(row, f[c])
     ELSE f[c].value = <<>> \/ row[c] = f[c].value

KeptAllEntries(row) == SearchStage(row, searchTerm) /\ FilterStageAllEntries(row, filters)

KeptNonEmptyEntries(row) ==
  SearchStage(row, searchTerm) /\ FilterStageNonEmptyEntries(row, filters)

\* C8, as stated: the filtered rows are the loaded rows, in order, that pass
\* the search stage and satisfy every filter-state entry (Year Founded by
\* inclusive range, any other column by exact string equality).
C8_EveryEntryConstrains ==
  view = "main" => filteredData = SelectSeq(data, KeptAllEntries)

\* C8, amended: the filtered rows are the loaded rows, in order, that pass the
\* search stage and satisfy every filter-state entry whose value is not the
\* empty string (Year Founded by inclusive range, any other column by exact
\* string equality); a search term found in none of the three searched fields
\* of any row gives an empty result.
C8_FilteredRowsAreTheKeptRows ==
  view = "main" =>
    /\ filteredData = SelectSeq(data, KeptNonEmptyEntries)
    /\ ((\A i \in 1..Len(data) : \A c \in SearchedColumns :
            ~includes(toLowerCase(data[i][c]), toLowerCase(searchTerm)))
          => filteredData = <<>>)

\* A search term and two filter entries keep one row of two; the kept row
\* matches the search by its Headquarters only.
C8_Witness ==
  /\ view = "main"
  /\ searchTerm # <<>>
  /\ Cardinality(DOMAIN filters) = 2
  /\ \A c \in DOMAIN filters : Truthy(filters[c])
  /\ Len(data) = 2
  /\ Len(filteredData) = 1
  /\ ~includes(toLowerCase(filteredData[1]["Company"]), toLowerCase(searchTerm))
  /\ ~includes(toLowerCase(filteredData[1]["Main Sport Focus"]), toLowerCase(searchTerm))

\* C9: an entry whose value is the empty string is no constraint: the filter
\* state extended by column -> "" filters as the filter state without an
\* entry for the column, for every column.
C9_EmptyValueIsNoConstraint ==
  /\ \A column \in Columns :
        filteredDataOf(data, searchTerm,
                       handleFilterChange(filters, column, StringValue(<<>>)))
          = filteredDataOf(data, searchTerm, WithoutColumn(filters, column))
  /\ \A column \in DOMAIN filters :
        view = "main" /\ filters[column] = StringValue(<<>>)
          => filteredData = filteredDataOf(data, searchTerm, WithoutColumn(filters, column))

\* 'All' was selected after a value: the entry is the empty string and the
\* rows, whose values in the column differ, are all shown again.
C9_Witness ==
  /\ view = "main"
  /\ "Ownership Status" \in DOMAIN filters
  /\ filters["Ownership Status"] = StringValue(<<>>)
  /\ Cardinality(getUniqueValues(data, "Ownership Status")) > 1
  /\ filteredData = data

----------------------------------------------------------------------------
\* Properties of the node derivation

\* g is the text before the first comma of field, without the white space
\* around it.
IsTrimmedFirstToken(field, g) ==
  LET commas == {i \in 1..Len(field) : field[i] = ","}
      stop   == IF commas = {} THEN Len(field) + 1 ELSE SetMin(commas)
      token  == SubSeq(field, 1, stop - 1)
  IN  /\ g # <<>> => g[1] \notin WhiteSpace /\ g[Len(g)] \notin WhiteSpace
      /\ \E a \in 0..(Len(token) - Len(g)) :
            /\ SubSeq(token, a + 1, a + Len(g)) = g
            /\ \A i \in (1..a) \cup ((a + Len(g) + 1)..Len(token)) :
                  token[i] \in WhiteSpace

\* C10: the drawn nodes are one per filtered row, in the order of the rows,
\* with id = Company and group = the trimmed text before the first comma of
\* Main Sport Focus (the whole trimmed field when it has no comma).
C10_OneNodePerRow ==
  graphBuilt =>
    /\ Len(nodes) = Len(filteredData)
    /\ \A i \in 1..Len(nodes) :
          /\ nodes[i].id = filteredData[i]["Company"]
          /\ IsTrimmedFirstToken(filteredData[i]["Main Sport Focus"], nodes[i].group)

\* One drawn node comes from a field with a comma and white space before it
\* or after it, another from a field without comma that had to be trimmed.
C10_Witness ==
  /\ graphBuilt
  /\ \E i, j \in 1..Len(nodes) :
        /\ InSeq(",", filteredData[i]["Main Sport Focus"])
        /\ nodes[i].group # <<>>
        /\ ~InSeq(",", filteredData[j]["Main Sport Focus"])
        /\ nodes[j].group # filteredData[j]["Main Sport Focus"]

----------------------------------------------------------------------------
\* Properties of the load failure

FailureState ==
  /\ view = "error"
  /\ error = FailureMessage
  /\ error # <<>>
  /\ data = <<>>
  /\ filteredData = <<>>
  /\ ~graphInvoked
  /\ ~graphBuilt
  /\ nodes = <<>>
  /\ links = <<>>

\* C7: when the fetch or the parse fails, the component shows the error view
\* with a non-empty message, the rows stay empty, createNetworkGraph has never
\* been called, and no later step leaves the error view.
C7_FailureIsTerminal ==
  /\ [](logged # "none" => FailureState)
  /\ [][logged # "none" => logged' = logged /\ view' = "error" /\ error' = error]_vars

\* The parse has failed and the error view is shown.
C7_Witness == logged = "parse" /\ view = "error"

----------------------------------------------------------------------------
\* Properties of the load lifecycle

Pending == view = "loading" /\ loading

Ready == view = "main" /\ ~loading /\ error = Null

Failed == view = "error" /\ ~loading /\ error # Null

\* C11: the component starts pending, the one request (made once, never
\* again) ends in exactly one of Ready, on success with any parsed row set,
\* also one of zero rows, or Failed, on failure, and a settled component is
\* not pending again.
C11_LoadLifecycle ==
  /\ requests <= 1
  /\ (fetch = "pending" => requests = 1 /\ Pending)
  /\ (fetch = "settled" =>
        /\ requests = 1
        /\ ~Pending
        /\ (logged = "none" => Ready /\ ~Failed)
        /\ (logged # "none" => Failed /\ ~Ready))

\* The same for the parsed row sets of at least one row, which is what the
\* component does.
LoadLifecycleWithRows ==
  /\ requests <= 1
  /\ (fetch = "pending" => requests = 1 /\ Pending)
  /\ (fetch = "settled" =>
        /\ requests = 1
        /\ ~Pending
        /\ (logged = "none" /\ data # <<>> => Ready /\ ~Failed)
        /\ (logged = "none" /\ data = <<>> => view = "crashed")
        /\ (logged # "none" => Failed /\ ~Ready))

----------------------------------------------------------------------------
\* Properties of the drawing

\* The drawn nodes whose id, lower-cased, contains the lower-cased search term.
Matching ==
  {i \in 1..Len(nodes) :
     searchTerm # <<>> /\ includes(toLowerCase(nodes[i].id), toLowerCase(searchTerm))}

\* The transform t shows the centre of the nodes of H, as they are placed
\* when the graph is built, at the middle of the canvas: with c the centre,
\* t.k * c + (t.x, t.y) = (Width / 2, Height / 2), written without division.
CentresOn(t, H) ==
  /\ t.count = Cardinality(H)
  /\ t.scaleTenths * sumX(H, nodes) + 10 * t.xTimesCount
       = 10 * Cardinality(H) * (Width \div 2)
  /\ t.scaleTenths * sumY(H, nodes) + 10 * t.yTimesCount
       = 10 * Cardinality(H) * (Height \div 2)

\* C12: when a non-empty search term highlights at least one node, the zoom
\* transform centres on the centroid of the highlighted nodes and its scale
\* is larger for more than one highlighted node than for exactly one; with
\* no highlighted node, or an empty search term, no transform is applied.
C12_AutoFocusCentresAndScales ==
  view = "main" /\ graphBuilt =>
    IF Matching # {}
      THEN /\ CentresOn(zoomTransform, Matching)
           /\ (Cardinality(Matching) > 1 => zoomTransform.scaleTenths > focusScale(1))
           /\ (Cardinality(Matching) = 1 => zoomTransform.scaleTenths < focusScale(2))
      ELSE zoomTransform = ZoomIdentity

\* The centring part of C12 alone.
AutoFocusCentres ==
  view = "main" /\ graphBuilt /\ Matching # {} => CentresOn(zoomTransform, Matching)

\* What the component does: the translation is (Width / 2, Height / 2) minus
\* the centroid, not scaled, the scale is 2 for one highlighted node and 1.5
\* for more, and without a highlighted node the transform is the identity.
AutoFocusAsCoded ==
  view = "main" /\ graphBuilt =>
    IF Matching # {}
      THEN /\ zoomTransform.count = Cardinality(Matching)
           /\ zoomTransform.xTimesCount
                = Cardinality(Matching) * (Width \div 2) - sumX(Matching, nodes)
           /\ zoomTransform.yTimesCount
                = Cardinality(Matching) * (Height \div 2) - sumY(Matching, nodes)
           /\ zoomTransform.scaleTenths = (IF Cardinality(Matching) = 1 THEN 20 ELSE 15)
      ELSE zoomTransform = ZoomIdentity

\* Two drawn nodes are highlighted.
TwoHighlighted == view = "main" /\ graphBuilt /\ Cardinality(Matching) > 1

\* The circle and the label of drawn node i carry the highlight.
DrawnHighlighted(i) ==
  /\ circles[i].r = 16
  /\ circles[i].fill = HighlightColor
  /\ labels[i].fontSize = 125
  /\ labels[i].fontWeight = "bold"

\* The circle and the label of drawn node i have the plain size and weight.
DrawnPlain(i) ==
  /\ circles[i].r = 10
  /\ labels[i].fontSize = 100
  /\ labels[i].fontWeight = "normal"

\* C13: a drawn node is highlighted (larger radius, highlight colour, bold
\* larger label) exactly when the search term is not empty and the node's id,
\* lower-cased, contains the lower-cased search term; every other node, also
\* one kept for its Main Sport Focus or Headquarters, is drawn plain.
C13_HighlightIffIdMatches ==
  view = "main" /\ graphBuilt =>
    /\ Len(circles) = Len(nodes)
    /\ Len(labels) = Len(nodes)
    /\ \A i \in 1..Len(nodes) :
          /\ DrawnHighlighted(i) <=> i \in Matching
          /\ i \notin Matching => DrawnPlain(i)
          /\ searchTerm = <<>> => ~DrawnHighlighted(i)

\* A search term in another case than the id highlights one node, and a row
\* kept for its Headquarters or Main Sport Focus is drawn plain beside it.
C13_Witness ==
  /\ view = "main"
  /\ graphBuilt
  /\ \E i, j \in 1..Len(nodes) :
        /\ DrawnHighlighted(i)
        /\ ~includes(nodes[i].id, searchTerm)
        /\ DrawnPlain(j)
        /\ j \notin Matching

\* C14: once rows are shown, after any search-term and filter changes the
\* drawn nodes and links are those derived from filtering the loaded rows with
\* the current search term and filter state, nothing of an earlier graph being
\* left, and the loaded rows are never changed by these events.
C14_GraphFollowsState ==
  /\ [](view = "main" /\ graphBuilt =>
          LET rows == filteredDataOf(data, searchTerm, filters)
          IN  /\ filteredData = rows
              /\ nodes = createNodes(rows)
              /\ links = createLinks(rows, createNodes(rows))
              /\ Len(circles) = Len(rows)
              /\ Len(labels) = Len(rows)
              /\ \A i \in 1..Len(rows) : labels[i].text = rows[i]["Company"])
  /\ [][view = "main" => data' = data]_vars

\* A search term and both filters were set one after the other, and the graph
\* drawn now is smaller than the loaded rows.
C14_Witness ==
  /\ view = "main"
  /\ graphBuilt
  /\ searchTerm # <<>>
  /\ Cardinality(DOMAIN filters) = 2
  /\ resizeHandlers = MaxCounted
  /\ Len(nodes) = 1
  /\ Len(data) = 2

----------------------------------------------------------------------------
\* Properties of the listeners and simulations

\* C15: after any sequence of graph rebuilds at most one resize listener is
\* registered and at most one simulation is running, the cleanup of a rebuild
\* having run before the next one.
C15_AtMostOneListenerAndSimulation ==
  /\ resizeHandlers <= 1
  /\ simulations <= 1

\* What the component does: every build adds a listener and a simulation and
\* none is ever removed or stopped.
ListenersOnlyGrow ==
  [][resizeHandlers' >= resizeHandlers /\ simulations' >= simulations]_vars

====
